---------------------------- MODULE Spec2Model ----------------------------
(*************************************************************************)
(* Model of src/analyze_xsd.py: the two functions summarize_schema and   *)
(* generate_example_xml, and the CLI driver main().                      *)
(*                                                                       *)
(* The schema library (xmlschema) and the tree library (lxml) are the    *)
(* program's collaborators.  A schema document on disk is a record       *)
(*   [wellFormed, version, elements, types]                              *)
(* where elements and types are the library's mappings in iteration      *)
(* order (sequences of declarations with pairwise distinct names).       *)
(* Text is a sequence of string tokens; the newline is the token "\n".   *)
(*************************************************************************)
EXTENDS Integers, Sequences, FiniteSets, TLC

VARIABLES
    pc,         \* position of the run: main()'s next statement, or "done"
    argXsd,     \* TRUE iff --xsd was given on the command line
    xsdExists,  \* TRUE iff a file exists at the --xsd path
    xsdFile,    \* the schema document stored at the --xsd path
    fs,         \* the output side of the filesystem: [out, summary, example]
    fs0,        \* fs as it was when the process started (history)
    summary,    \* value of main's local `summary` (text), NoText before
    tree,       \* value of main's local `tree` (root tag), NoTree before
    calls,      \* the calls made so far, in order
    console,    \* the messages printed so far, in order
    caught,     \* the exception caught by main's except clause, or NoExc
    raised,     \* the exception that left main() uncaught, or NoExc
    exitCode    \* process exit status, Running while the run goes on

vars == << pc, argXsd, xsdExists, xsdFile, fs, fs0, summary, tree, calls,
           console, caught, raised, exitCode >>

-----------------------------------------------------------------------------
(* Bounds of the model *)

\* longest elements mapping of a document handed to the functions
MaxElems == 2
\* longest types mapping of a document handed to the functions
MaxTypes == 1
\* longest elements mapping of a document handed to main()
MainMaxElems == 1
\* longest types mapping of a document handed to main()
MainMaxTypes == 1

-----------------------------------------------------------------------------
(* Values *)

NoExc    == "no exception"
NoTree   == [ root |-> [ tag |-> "<unbound>" ] ]
NoText   == << "no text" >>
Running  == -1
NoAttr   == "<no attribute>"   \* the schema object has no `version`
NoType   == "<no type>"        \* elem.type is None
NoBase   == "<no base_type>"   \* the type has no base_type (or it is None)
XsdPath  == "mini.xsd"         \* str(xsd_path)

ElemNames == { "Root", "Item", "Child" }
\* elem.type: absent, anonymous (its name is None), or a named type
ElemTypes == { NoType, "None", "xs:string" }
TypeNames == { "CodeType", "IdType" }
\* t.base_type: absent, an anonymous base (name None), or a named base
BaseTypes == { NoBase, "None", "xs:string" }
\* schema.version: attribute missing, attribute None, or a version string
Versions  == { NoAttr, "None", "1.1" }

Range(s) == { s[i] : i \in 1..Len(s) }

SeqsUpTo(S, n) == UNION { [1..k -> S] : k \in 0..n }

\* a mapping has one entry per key
DistinctNames(s) == \A i, j \in 1..Len(s) : s[i].name = s[j].name => i = j

ElemDecls == [ name : ElemNames, type : ElemTypes ]
TypeDecls == [ name : TypeNames, base : BaseTypes ]

\* what is at the path when the library cannot load it
Malformed == [ wellFormed |-> FALSE, version |-> NoAttr,
               elements |-> << >>, types |-> << >> ]

Schemas(maxE, maxT) ==
    { [ wellFormed |-> TRUE, version |-> v, elements |-> es, types |-> ts ] :
        v \in Versions,
        es \in { s \in SeqsUpTo(ElemDecls, maxE) : DistinctNames(s) },
        ts \in { s \in SeqsUpTo(TypeDecls, maxT) : DistinctNames(s) } }

Docs(maxE, maxT) == Schemas(maxE, maxT) \cup { Malformed }

-----------------------------------------------------------------------------
(* The collaborators, as far as analyze_xsd.py uses them *)

\* xmlschema.XMLSchema11(xsd_path): the schema object, or an exception when
\* nothing loadable is at the path
XMLSchema11(exists, doc) ==
    IF exists /\ doc.wellFormed
    THEN [ raised |-> NoExc, schema |-> doc ]
    ELSE [ raised |-> "XMLSchemaException", schema |-> Malformed ]

\* schema.elements[qname]: the declaration stored under the key
Lookup(mapping, qname) ==
    mapping[CHOOSE i \in 1..Len(mapping) : mapping[i].name = qname]

\* elem.to_etree(): the library synthesizes an element for the declaration,
\* or raises; which of the two is the library's (synth)
to_etree(elem, synth) ==
    IF synth
    THEN [ raised |-> NoExc, element |-> [ tag |-> elem.name ] ]
    ELSE [ raised |-> "SynthesisError", element |-> NoTree.root ]

\* etree.ElementTree(example)
ElementTree(example) == [ root |-> example ]

\* "\n".join(lines)
RECURSIVE JoinLines(_)
JoinLines(lines) ==
    IF Len(lines) = 0 THEN << >>
    ELSE IF Len(lines) = 1 THEN lines[1]
    ELSE lines[1] \o << "\n" >> \o JoinLines(Tail(lines))

-----------------------------------------------------------------------------
(* summarize_schema *)

\* f"Version: {getattr(schema, 'version', 'n/a')}"
VersionLine(schema) ==
    << "Version: ", IF schema.version = NoAttr THEN "n/a" ELSE schema.version >>

\* f"- {qname} -> type={elem.type.name if elem.type else 'anyType'}"
ElemLine(elem) ==
    << "- ", elem.name, " -> type=",
       IF elem.type # NoType THEN elem.type ELSE "anyType" >>

\* f"- {qname} (base={base})" with base = the base type's name or None
TypeLine(t) ==
    << "- ", t.name, " (base=", IF t.base = NoBase THEN "None" ELSE t.base, ")" >>

\* mutant of SummaryLines: the types section is put before the elements
SummaryLines_TypesFirst(schema) ==
    << << "Schema: ", XsdPath >>, VersionLine(schema), << >>,
       << "Global types:" >> >>
    \o [ i \in 1..Len(schema.types) |-> TypeLine(schema.types[i]) ]
    \o << << >>, << "Global elements:" >> >>
    \o [ i \in 1..Len(schema.elements) |-> ElemLine(schema.elements[i]) ]

SummaryLines(schema) ==
    << << "Schema: ", XsdPath >>, VersionLine(schema), << >>,
       << "Global elements:" >> >>
    \o [ i \in 1..Len(schema.elements) |-> ElemLine(schema.elements[i]) ]
    \o << << >>, << "Global types:" >> >>
    \o [ i \in 1..Len(schema.types) |-> TypeLine(schema.types[i]) ]

summarize_schema(exists, doc) ==
    LET ld == XMLSchema11(exists, doc) IN
    IF ld.raised # NoExc
    THEN [ raised |-> ld.raised, text |-> NoText, calls |-> << "XMLSchema11" >> ]
    ELSE [ raised |-> NoExc, text |-> JoinLines(SummaryLines(ld.schema)),
           calls |-> << "XMLSchema11" >> ]

-----------------------------------------------------------------------------
(* generate_example_xml *)

\* mutant of generate_example_xml: the emptiness check is missing, so
\* next(iter(schema.elements)) raises on an empty mapping
generate_example_xml_Unguarded(exists, doc, synth) ==
    LET ld == XMLSchema11(exists, doc) IN
    IF ld.raised # NoExc
    THEN [ raised |-> ld.raised, tree |-> NoTree, calls |-> << "XMLSchema11" >> ]
    ELSE IF Len(ld.schema.elements) = 0
    THEN [ raised |-> "StopIteration", tree |-> NoTree,
           calls |-> << "XMLSchema11" >> ]
    ELSE LET example == to_etree(ld.schema.elements[1], synth)
         IN IF example.raised # NoExc
            THEN [ raised |-> example.raised, tree |-> NoTree,
                   calls |-> << "XMLSchema11", "to_etree" >> ]
            ELSE [ raised |-> NoExc, tree |-> ElementTree(example.element),
                   calls |-> << "XMLSchema11", "to_etree" >> ]

\* mutant of generate_example_xml: the last global element is the root
generate_example_xml_Last(exists, doc, synth) ==
    LET ld == XMLSchema11(exists, doc) IN
    IF ld.raised # NoExc
    THEN [ raised |-> ld.raised, tree |-> NoTree, calls |-> << "XMLSchema11" >> ]
    ELSE IF Len(ld.schema.elements) = 0
    THEN [ raised |-> "ValueError", tree |-> NoTree,
           calls |-> << "XMLSchema11" >> ]
    ELSE LET example ==
                 to_etree(ld.schema.elements[Len(ld.schema.elements)], synth)
         IN IF example.raised # NoExc
            THEN [ raised |-> example.raised, tree |-> NoTree,
                   calls |-> << "XMLSchema11", "to_etree" >> ]
            ELSE [ raised |-> NoExc, tree |-> ElementTree(example.element),
                   calls |-> << "XMLSchema11", "to_etree" >> ]

\* mutant of generate_example_xml: the schema loaded by summarize_schema is
\* kept and used again instead of being loaded
generate_example_xml_Cached(exists, doc, synth) ==
    IF Len(doc.elements) = 0
    THEN [ raised |-> "ValueError", tree |-> NoTree, calls |-> << >> ]
    ELSE LET example == to_etree(doc.elements[1], synth)
         IN IF example.raised # NoExc
            THEN [ raised |-> example.raised, tree |-> NoTree,
                   calls |-> << "to_etree" >> ]
            ELSE [ raised |-> NoExc, tree |-> ElementTree(example.element),
                   calls |-> << "to_etree" >> ]

generate_example_xml(exists, doc, synth) ==
    LET ld == XMLSchema11(exists, doc) IN
    IF ld.raised # NoExc
    THEN [ raised |-> ld.raised, tree |-> NoTree, calls |-> << "XMLSchema11" >> ]
    ELSE IF Len(ld.schema.elements) = 0
    THEN [ raised |-> "ValueError", tree |-> NoTree,
           calls |-> << "XMLSchema11" >> ]
    ELSE LET root_qname == ld.schema.elements[1].name
             example == to_etree(Lookup(ld.schema.elements, root_qname), synth)
         IN IF example.raised # NoExc
            THEN [ raised |-> example.raised, tree |-> NoTree,
                   calls |-> << "XMLSchema11", "to_etree" >> ]
            ELSE [ raised |-> NoExc, tree |-> ElementTree(example.element),
                   calls |-> << "XMLSchema11", "to_etree" >> ]

-----------------------------------------------------------------------------
(* main(): one action per statement that can end the run or write state *)

\* the process ends: an uncaught exception gives status 1 (SystemExit with a
\* message too), argparse's own error gives 2, returning from main gives 0
Exit(exc, code) ==
    /\ pc' = "done"
    /\ raised' = exc
    /\ exitCode' = code

\* lines 40-43: parser.parse_args(); --xsd is required
ParseArgs ==
    /\ pc = "parse_args"
    /\ IF argXsd
       THEN /\ pc' = "mkdir"
            /\ UNCHANGED << raised, exitCode, console >>
       ELSE /\ Exit("SystemExit", 2)
            /\ console' = Append(console, "usage error")
    /\ UNCHANGED << argXsd, xsdExists, xsdFile, fs, fs0, summary, tree, calls,
                    caught >>

\* lines 45-47: out_dir.mkdir(parents=True, exist_ok=True)
Mkdir ==
    /\ pc = "mkdir"
    /\ IF fs.out = "file"
       THEN /\ Exit("FileExistsError", 1)
            /\ UNCHANGED fs
       ELSE /\ fs' = [ fs EXCEPT !.out = "dir" ]
            /\ pc' = "exists"
            /\ UNCHANGED << raised, exitCode >>
    /\ calls' = Append(calls, "mkdir")
    /\ UNCHANGED << argXsd, xsdExists, xsdFile, fs0, summary, tree, console,
                    caught >>

\* mutant of CheckExists: the existence check is missing
CheckExists_Unchecked ==
    /\ pc = "exists"
    /\ pc' = "summarize"
    /\ console' = Append(console, "Analyzing")
    /\ UNCHANGED << argXsd, xsdExists, xsdFile, fs, fs0, summary, tree, calls,
                    caught, raised, exitCode >>

\* lines 49-52: if not xsd_path.exists(): raise SystemExit(...); print
CheckExists ==
    /\ pc = "exists"
    /\ IF ~xsdExists
       THEN /\ Exit("SystemExit", 1)
            /\ console' = Append(console, "XSD not found")
       ELSE /\ pc' = "summarize"
            /\ console' = Append(console, "Analyzing")
            /\ UNCHANGED << raised, exitCode >>
    /\ UNCHANGED << argXsd, xsdExists, xsdFile, fs, fs0, summary, tree, calls,
                    caught >>

\* mutant of Summarize: a failure of summarize_schema is swallowed and the
\* run goes on with an empty summary
Summarize_Swallowed ==
    /\ pc = "summarize"
    /\ LET r == summarize_schema(xsdExists, xsdFile) IN
       /\ calls' = calls \o << "summarize_schema" >> \o r.calls
       /\ summary' = r.text
       /\ pc' = "write_summary"
    /\ UNCHANGED << argXsd, xsdExists, xsdFile, fs, fs0, tree, console, caught,
                    raised, exitCode >>

\* line 54: summary = summarize_schema(xsd_path)
Summarize ==
    /\ pc = "summarize"
    /\ LET r == summarize_schema(xsdExists, xsdFile) IN
       /\ calls' = calls \o << "summarize_schema" >> \o r.calls
       /\ IF r.raised # NoExc
          THEN /\ Exit(r.raised, 1)
               /\ UNCHANGED summary
          ELSE /\ summary' = r.text
               /\ pc' = "write_summary"
               /\ UNCHANGED << raised, exitCode >>
    /\ UNCHANGED << argXsd, xsdExists, xsdFile, fs, fs0, tree, console, caught >>

\* mutant of WriteSummary: a failed write is ignored
WriteSummary_Ignored ==
    /\ pc = "write_summary"
    /\ IF fs.summary = "dir"
       THEN UNCHANGED << fs, console >>
       ELSE /\ fs' = [ fs EXCEPT !.summary = "written" ]
            /\ console' = Append(console, "Wrote summary")
    /\ pc' = "generate"
    /\ calls' = Append(calls, "write_summary")
    /\ UNCHANGED << argXsd, xsdExists, xsdFile, fs0, summary, tree, caught,
                    raised, exitCode >>

\* lines 55-56: (out_dir / "schema_summary.txt").write_text(summary); print
WriteSummary ==
    /\ pc = "write_summary"
    /\ IF fs.summary = "dir"
       THEN /\ Exit("IsADirectoryError", 1)
            /\ UNCHANGED << fs, console >>
       ELSE /\ fs' = [ fs EXCEPT !.summary = "written" ]
            /\ console' = Append(console, "Wrote summary")
            /\ pc' = "generate"
            /\ UNCHANGED << raised, exitCode >>
    /\ calls' = Append(calls, "write_summary")
    /\ UNCHANGED << argXsd, xsdExists, xsdFile, fs0, summary, tree, caught >>

\* mutant of Except: no except clause, the exception leaves main()
Except_Propagated(exc) ==
    /\ Exit(exc, 1)
    /\ UNCHANGED << caught, console >>

\* lines 62-63: except Exception as e: print(warning); main returns
Except(exc) ==
    /\ caught' = exc
    /\ console' = Append(console, "Skipped example")
    /\ Exit(NoExc, 0)

\* mutant of Generate: the example is written whether or not a tree was
\* returned
Generate_AlwaysWrites ==
    /\ pc = "generate"
    /\ \E synth \in BOOLEAN :
         LET r == generate_example_xml(xsdExists, xsdFile, synth) IN
         /\ calls' = calls \o << "generate_example_xml" >> \o r.calls
         /\ tree' = r.tree
         /\ pc' = "write_example"
    /\ UNCHANGED << argXsd, xsdExists, xsdFile, fs, fs0, summary, raised,
                    exitCode, console, caught >>

\* lines 58-59: try: tree = generate_example_xml(xsd_path)
Generate ==
    /\ pc = "generate"
    /\ \E synth \in BOOLEAN :
         LET r == generate_example_xml(xsdExists, xsdFile, synth) IN
         /\ calls' = calls \o << "generate_example_xml" >> \o r.calls
         /\ IF r.raised # NoExc
            THEN /\ Except(r.raised)
                 /\ UNCHANGED tree
            ELSE /\ tree' = r.tree
                 /\ pc' = "write_example"
                 /\ UNCHANGED << raised, exitCode, console, caught >>
    /\ UNCHANGED << argXsd, xsdExists, xsdFile, fs, fs0, summary >>

\* lines 60-61: tree.write(out_dir / "example.xml", ...); print; return
WriteExample ==
    /\ pc = "write_example"
    /\ IF fs.example = "dir"
       THEN /\ Except("OSError")
            /\ UNCHANGED fs
       ELSE /\ fs' = [ fs EXCEPT !.example = "written" ]
            /\ console' = Append(console, "Wrote example")
            /\ Exit(NoExc, 0)
            /\ UNCHANGED caught
    /\ calls' = Append(calls, "write_example")
    /\ UNCHANGED << argXsd, xsdExists, xsdFile, fs0, summary, tree >>

\* The schema file is re-read from disk by each function, so what the second
\* load sees is whatever is at the path then: the file may have been
\* replaced by something unloadable since the first load.
SchemaFileReplaced ==
    /\ pc \in { "write_summary", "generate" }
    /\ xsdFile.wellFormed
    /\ xsdFile' = Malformed
    /\ UNCHANGED << pc, argXsd, xsdExists, fs, fs0, summary, tree, calls,
                    console, caught, raised, exitCode >>

-----------------------------------------------------------------------------
(* The runs of main() *)

\* the output path is absent, a directory (holding any of the two entries:
\* absent, a file left by an earlier run, or a directory), or a regular file
FsStates ==
    { f \in [ out : { "absent", "dir", "file" },
              summary : { "absent", "stale", "dir" },
              example : { "absent", "stale", "dir" } ] :
        f.out # "dir" => f.summary = "absent" /\ f.example = "absent" }

Init ==
    /\ pc = "parse_args"
    /\ argXsd \in BOOLEAN
    /\ xsdExists \in BOOLEAN
    /\ xsdFile \in Docs(MainMaxElems, MainMaxTypes)
    /\ ~argXsd => ~xsdExists
    /\ ~xsdExists => xsdFile = Malformed
    /\ fs \in FsStates
    /\ fs0 = fs
    /\ summary = NoText
    /\ tree = NoTree
    /\ calls = << >>
    /\ console = << >>
    /\ caught = NoExc
    /\ raised = NoExc
    /\ exitCode = Running

Next ==
    \/ ParseArgs
    \/ Mkdir
    \/ CheckExists
    \/ Summarize
    \/ WriteSummary
    \/ Generate
    \/ WriteExample
    \/ SchemaFileReplaced

Spec == Init /\ [][Next]_vars

-----------------------------------------------------------------------------
(* The functions called on their own, as the tests call them *)

\* tests line 18: summary = m.summarize_schema(xsd)
CallSummarize ==
    /\ pc = "call"
    /\ LET r == summarize_schema(xsdExists, xsdFile) IN
       /\ calls' = calls \o << "summarize_schema" >> \o r.calls
       /\ summary' = r.text
       /\ raised' = r.raised
    /\ pc' = "summarized"
    /\ UNCHANGED << argXsd, xsdExists, xsdFile, fs, fs0, tree, console, caught,
                    exitCode >>

\* tests line 39: tree = m.generate_example_xml(xsd)
CallGenerate ==
    /\ pc = "call"
    /\ \E synth \in BOOLEAN :
         LET r == generate_example_xml(xsdExists, xsdFile, synth) IN
         /\ calls' = calls \o << "generate_example_xml" >> \o r.calls
         /\ tree' = r.tree
         /\ raised' = r.raised
    /\ pc' = "generated"
    /\ UNCHANGED << argXsd, xsdExists, xsdFile, fs, fs0, summary, console,
                    caught, exitCode >>

InitFn ==
    /\ pc = "call"
    /\ argXsd = TRUE
    /\ xsdExists = TRUE
    /\ xsdFile \in Docs(MaxElems, MaxTypes)
    /\ fs = [ out |-> "absent", summary |-> "absent", example |-> "absent" ]
    /\ fs0 = fs
    /\ summary = NoText
    /\ tree = NoTree
    /\ calls = << >>
    /\ console = << >>
    /\ caught = NoExc
    /\ raised = NoExc
    /\ exitCode = Running

NextFn ==
    \/ CallSummarize
    \/ CallGenerate

SpecFn == InitFn /\ [][NextFn]_vars

-----------------------------------------------------------------------------
(* Helpers of the properties *)

Called(f) == f \in Range(calls)

\* how many times the schema document has been loaded
Loads == Cardinality({ i \in 1..Len(calls) : calls[i] = "XMLSchema11" })

\* the index of the first occurrence of f in calls (0 when there is none)
FirstCall(f) ==
    IF Called(f) THEN CHOOSE i \in 1..Len(calls) :
                          calls[i] = f /\ \A j \in 1..(i - 1) : calls[j] # f
    ELSE 0

Terminated == pc = "done"

\* text.split("\n")
RECURSIVE SplitLines(_)
SplitLines(t) ==
    IF "\n" \notin Range(t) THEN << t >>
    ELSE LET k == CHOOSE i \in 1..Len(t) :
                      t[i] = "\n" /\ \A j \in 1..(i - 1) : t[j] # "\n"
         IN << SubSeq(t, 1, k - 1) >> \o SplitLines(SubSeq(t, k + 1, Len(t)))

-----------------------------------------------------------------------------
(* C1 *)

\* C1: when the --xsd path does not exist, the run ends with a non-zero exit
\* status, neither schema_summary.txt nor example.xml is created or written,
\* and neither summarize_schema nor generate_example_xml is called.
C1_MissingPathFailsWithoutFiles ==
    (argXsd /\ ~xsdExists) =>
        /\ fs.summary = fs0.summary
        /\ fs.example = fs0.example
        /\ ~Called("summarize_schema")
        /\ ~Called("generate_example_xml")
        /\ exitCode # 0
        /\ Terminated => exitCode = 1
        /\ ~Terminated => ENABLED Next

\* a run on a missing path that got as far as the existence check and ended
C1_Witness ==
    /\ Terminated
    /\ argXsd /\ ~xsdExists
    /\ raised = "SystemExit"
    /\ console = << "XSD not found" >>
    /\ fs0.summary = "stale"

-----------------------------------------------------------------------------
(* C2 *)

\* C2: when the --xsd path does not exist, the run ends with the filesystem
\* unchanged: an output directory absent before the run is still absent, and
\* no file has been written.
C2_MissingPathLeavesFilesystemUnchanged ==
    (Terminated /\ argXsd /\ ~xsdExists) => fs = fs0

-----------------------------------------------------------------------------
(* C3 *)

\* C3 (as claimed): the exit status of main() is 0 if and only if the --xsd
\* path exists and summarize_schema returns without raising.
C3_ExitZeroIffSummarized ==
    Terminated => (exitCode = 0 <=> (xsdExists /\ summary # NoText))

\* C3 (amended): the exit status of main() is 0 if and only if the --xsd path
\* exists, summarize_schema returns without raising and schema_summary.txt is
\* written; it is non-zero when the path does not exist or summarization
\* raises; and whether example generation or the writing of example.xml
\* succeeds or fails does not change it.
C3_ExitZeroIffSummaryWritten ==
    Terminated =>
        /\ exitCode = 0 <=>
               (xsdExists /\ summary # NoText /\ fs.summary = "written")
        /\ (~xsdExists \/ raised = "XMLSchemaException") => exitCode # 0
        /\ (caught # NoExc \/ fs.example = "written") => exitCode = 0

\* summarize_schema returned, the summary could not be written, status 1
C3_Witness ==
    /\ Terminated
    /\ xsdExists /\ summary # NoText
    /\ raised = "IsADirectoryError"
    /\ exitCode = 1

-----------------------------------------------------------------------------
(* C4 *)

\* C4: once generate_example_xml has been called, no exception of the
\* example-generation step leaves main(): it is caught, the warning is
\* printed, the run ends normally with schema_summary.txt written before and
\* left as written, and example.xml is not written.
C4_GenerationFailureIsCaught ==
    /\ Called("generate_example_xml") => raised = NoExc
    /\ (Terminated /\ Called("generate_example_xml") /\ fs.example # "written")
           => caught # NoExc
    /\ caught # NoExc =>
           /\ Terminated /\ exitCode = 0 /\ raised = NoExc
           /\ console[Len(console)] = "Skipped example"
           /\ fs.summary = "written"
           /\ FirstCall("write_summary") < FirstCall("generate_example_xml")
           /\ fs.example = fs0.example

\* the library failed to synthesize the instance and the run ended normally
C4_Witness ==
    /\ Terminated
    /\ caught = "SynthesisError"
    /\ exitCode = 0
    /\ fs.summary = "written"

-----------------------------------------------------------------------------
(* C5 *)

\* C5: when summarize_schema raises, the error leaves main() uncaught:
\* schema_summary.txt is not written, generate_example_xml is never called,
\* example.xml is not written and the exit status is non-zero.
C5_SummarizeFailureAborts ==
    (Called("summarize_schema") /\ summary = NoText) =>
        /\ Terminated
        /\ raised = "XMLSchemaException"
        /\ exitCode = 1
        /\ fs.summary = fs0.summary /\ ~Called("write_summary")
        /\ fs.example = fs0.example
        /\ ~Called("generate_example_xml")
        /\ caught = NoExc

\* the schema at an existing path could not be loaded by summarize_schema
C5_Witness ==
    /\ Terminated
    /\ xsdExists /\ ~xsdFile.wellFormed
    /\ calls = << "mkdir", "summarize_schema", "XMLSchema11" >>
    /\ raised = "XMLSchemaException"

-----------------------------------------------------------------------------
(* C6 *)

\* C6: for a schema that loads and declares no global element,
\* generate_example_xml raises the ValueError of its precondition, and
\* raises it before any synthesis: to_etree is not called and no other
\* error (StopIteration from next(iter(...))) comes out.
C6_NoElementsIsPreconditionError ==
    (pc = "generated" /\ xsdFile.wellFormed /\ Len(xsdFile.elements) = 0) =>
        /\ raised = "ValueError"
        /\ ~Called("to_etree")
        /\ calls = << "generate_example_xml", "XMLSchema11" >>
        /\ tree = NoTree

\* generate_example_xml was called on a loadable schema that has global types
\* but no global element
C6_Witness ==
    /\ pc = "generated"
    /\ xsdFile.wellFormed
    /\ Len(xsdFile.elements) = 0 /\ Len(xsdFile.types) > 0
    /\ raised = "ValueError"

-----------------------------------------------------------------------------
(* C7 *)

\* C7: for a schema with at least one global element, generate_example_xml
\* synthesizes the first global element of the mapping's iteration order and
\* no later one: synthesis is attempted once, and when it succeeds the tag of
\* the returned tree's root is the first global element's name.
C7_RootIsFirstGlobalElement ==
    (pc = "generated" /\ xsdFile.wellFormed /\ Len(xsdFile.elements) >= 1) =>
        /\ calls = << "generate_example_xml", "XMLSchema11", "to_etree" >>
        /\ raised \in { NoExc, "SynthesisError" }
        /\ raised = NoExc =>
               /\ tree.root.tag = xsdFile.elements[1].name
               /\ \A i \in 2..Len(xsdFile.elements) :
                      tree.root.tag # xsdFile.elements[i].name
        /\ raised # NoExc => tree = NoTree

\* a tree rooted at Root was returned for a schema declaring Root and then
\* another global element
C7_Witness ==
    /\ pc = "generated"
    /\ xsdFile.wellFormed
    /\ Len(xsdFile.elements) = 2
    /\ xsdFile.elements[1].name = "Root"
    /\ raised = NoExc
    /\ tree.root.tag = "Root"

-----------------------------------------------------------------------------
(* C8 *)

\* C8: for a schema that loads, the text of summarize_schema is, line by
\* line: the path line, the version line ('n/a' when the schema object has
\* no version), an empty line, the header 'Global elements:', one line
\* '- name -> type=<type name>' per global element in iteration order
\* ('anyType' for an element without type), an empty line, the header
\* 'Global types:', and one line '- name (base=<base name or None>)' per
\* global type in iteration order.  So every global element name and every
\* global type name is in the report, and the elements come before the types.
C8_SummaryLayout ==
    (pc = "summarized" /\ xsdFile.wellFormed) =>
        LET L  == SplitLines(summary)
            es == xsdFile.elements
            ts == xsdFile.types
            n  == Len(es)
            m  == Len(ts)
        IN  /\ raised = NoExc
            /\ Len(L) = 6 + n + m
            /\ L[1] = << "Schema: ", XsdPath >>
            /\ Len(L[2]) = 2 /\ L[2][1] = "Version: "
            /\ xsdFile.version = NoAttr => L[2][2] = "n/a"
            /\ xsdFile.version # NoAttr => L[2][2] = xsdFile.version
            /\ L[3] = << >>
            /\ L[4] = << "Global elements:" >>
            /\ \A i \in 1..n :
                   /\ Len(L[4 + i]) = 4
                   /\ L[4 + i][1] = "- " /\ L[4 + i][2] = es[i].name
                   /\ L[4 + i][3] = " -> type="
                   /\ es[i].type = NoType => L[4 + i][4] = "anyType"
                   /\ es[i].type # NoType => L[4 + i][4] = es[i].type
            /\ L[5 + n] = << >>
            /\ L[6 + n] = << "Global types:" >>
            /\ \A j \in 1..m :
                   /\ Len(L[6 + n + j]) = 5
                   /\ L[6 + n + j][1] = "- " /\ L[6 + n + j][2] = ts[j].name
                   /\ L[6 + n + j][3] = " (base="
                   /\ ts[j].base = NoBase => L[6 + n + j][4] = "None"
                   /\ ts[j].base # NoBase => L[6 + n + j][4] = ts[j].base
                   /\ L[6 + n + j][5] = ")"
            /\ \A i \in 1..n : es[i].name \in Range(summary)
            /\ \A j \in 1..m : ts[j].name \in Range(summary)

\* the report of a schema with an untyped and a typed global element, a
\* global type and no version attribute
C8_Witness ==
    /\ pc = "summarized"
    /\ xsdFile.wellFormed
    /\ xsdFile.version = NoAttr
    /\ Len(xsdFile.elements) = 2 /\ Len(xsdFile.types) = 1
    /\ xsdFile.elements[1].type = NoType
    /\ xsdFile.elements[2].type = "xs:string"
    /\ "anyType" \in Range(summary)

-----------------------------------------------------------------------------
(* C9 *)

\* C9: in every state of a run of main(), example.xml has been written by
\* the run only if generate_example_xml returned a tree in it and only after
\* schema_summary.txt was written by it; example generation is attempted
\* only after the summary is written; and a run that ended with status 0
\* leaves schema_summary.txt written.
C9_ExampleOnlyAfterSummary ==
    /\ fs.example # fs0.example =>
           /\ fs.example = "written"
           /\ tree # NoTree
           /\ fs.summary = "written"
           /\ 0 < FirstCall("write_summary")
           /\ FirstCall("write_summary") < FirstCall("generate_example_xml")
           /\ FirstCall("generate_example_xml") < FirstCall("write_example")
    /\ Called("generate_example_xml") => fs.summary = "written"
    /\ (Terminated /\ exitCode = 0) => fs.summary = "written"

\* a run that ended with status 0 and left only schema_summary.txt in a
\* directory it created
C9_Witness ==
    /\ Terminated
    /\ exitCode = 0
    /\ fs0.out = "absent"
    /\ fs = [ out |-> "dir", summary |-> "written", example |-> "absent" ]

-----------------------------------------------------------------------------
(* C10 *)

\* C10 (as claimed): in a run of main() where the path exists and
\* summarize_schema succeeds, the schema document is loaded exactly twice.
C10_SummarizedRunLoadsTwice ==
    (Terminated /\ xsdExists /\ summary # NoText) => Loads = 2

\* C10 (amended): every call of summarize_schema and of generate_example_xml
\* loads the schema itself.  In a run of main() where the path exists,
\* summarize_schema succeeds and schema_summary.txt is written, the schema is
\* loaded exactly twice; when summarize_schema succeeds and the summary
\* cannot be written, or when summarize_schema's load fails, exactly once;
\* when the path does not exist, never; and a failure of the load in
\* generate_example_xml after a successful summary is caught and the run
\* ends with status 0.
C10_SchemaLoadedPerCall ==
    /\ \A i \in 1..Len(calls) :
           calls[i] \in { "summarize_schema", "generate_example_xml" } =>
               i < Len(calls) /\ calls[i + 1] = "XMLSchema11"
    /\ Terminated =>
           /\ (xsdExists /\ summary # NoText /\ fs.summary = "written")
                  => Loads = 2
           /\ (xsdExists /\ summary # NoText /\ fs.summary # "written")
                  => Loads = 1
           /\ raised = "XMLSchemaException" => Loads = 1
           /\ ~xsdExists => Loads = 0
    /\ caught = "XMLSchemaException" =>
           /\ Terminated /\ exitCode = 0 /\ raised = NoExc
           /\ summary # NoText /\ fs.summary = "written"
           /\ Loads = 2

\* the schema file became unloadable between the two loads
C10_Witness ==
    /\ Terminated
    /\ caught = "XMLSchemaException"
    /\ summary # NoText
    /\ Loads = 2

=============================================================================
